---- MODULE Spec2Model ----
(***************************************************************************)
(* Model of the kirana-store order parser (src/src/order_parser.py).       *)
(*                                                                         *)
(* A text is a sequence of characters; a character is a one-character      *)
(* string, and a Devanagari code point U+09xx is written "u09xx".          *)
(***************************************************************************)
EXTENDS Integers, Sequences, FiniteSets, TLC

VARIABLES
    order_text,     \* parse_hinglish_order: the message being parsed
    pc,             \* parse_hinglish_order: position in the function
    matches,        \* parse_hinglish_order: result of re.findall
    next_match,     \* parse_hinglish_order: index of the next match of the for loop
    items,          \* parse_hinglish_order: the items list
    matcher_args,   \* parse_hinglish_order: product_str handed to fuzzy_match_product, per item
    order,          \* parse_hinglish_order: the returned dict
    product_text,   \* fuzzy_match_product: argument
    threshold,      \* fuzzy_match_product: argument
    match_pc,       \* fuzzy_match_product: position in the function
    match_result,   \* fuzzy_match_product: the returned value
    unit_input,     \* normalize_unit: argument of the first call
    unit_pc,        \* normalize_unit: which call is next
    unit_once,      \* normalize_unit: value returned by the first call
    unit_twice,     \* normalize_unit: value returned for that value
    parsed_order,   \* generate_reply: argument
    customer_name,  \* generate_reply: argument
    reply_pc,       \* generate_reply: position in the function
    summary_lines,  \* generate_reply: the list of lines
    reply,          \* generate_reply: the returned text
    tables,         \* shared OrderParser: UNIT_MAPPINGS, PRODUCT_ALIASES, known_products
    thread_text,    \* per thread: order_text of its parse_hinglish_order call
    thread_pc,      \* per thread: position in its calls
    thread_matches, \* per thread: matches
    thread_next,    \* per thread: index of the next match of the for loop
    thread_items,   \* per thread: items
    thread_order,   \* per thread: the dict parse_hinglish_order returned
    thread_reply,   \* per thread: the text generate_reply returned
    stock,          \* InventoryDB: items.stock, by items.name
    stock_history,  \* InventoryDB: the rows of stock_history, oldest first
    stock_before,   \* stock when the request or the calls began
    history_before, \* stock_history when the request or the calls began
    message,        \* process_whatsapp_order: message.message
    handler_pc,     \* process_whatsapp_order: position in the handler
    handler_order,  \* process_whatsapp_order: parsed_order
    available_items,    \* process_whatsapp_order: available_items
    unavailable_items,  \* process_whatsapp_order: unavailable_items
    update_next,    \* process_whatsapp_order: index of the next turn of the update loop
    success,        \* process_whatsapp_order: OrderResponse.success
    call_pc,        \* per caller of update_stock: position in the call
    call_name,      \* per caller of update_stock: argument name
    call_change,    \* per caller of update_stock: argument change
    call_item,      \* per caller of update_stock: the local item
    call_returned,  \* per caller of update_stock: the value returned last
    calls_made      \* per caller of update_stock: calls begun so far

vars == <<order_text, pc, matches, next_match, items, matcher_args, order,
          product_text, threshold, match_pc, match_result,
          unit_input, unit_pc, unit_once, unit_twice,
          parsed_order, customer_name, reply_pc, summary_lines, reply,
          tables, thread_text, thread_pc, thread_matches, thread_next,
          thread_items, thread_order, thread_reply,
          stock, stock_history, stock_before, history_before,
          message, handler_pc, handler_order, available_items,
          unavailable_items, update_next, success,
          call_pc, call_name, call_change, call_item, call_returned, calls_made>>

parse_vars == <<order_text, pc, matches, next_match, items, matcher_args, order>>

match_vars == <<product_text, threshold, match_pc, match_result>>

unit_vars == <<unit_input, unit_pc, unit_once, unit_twice>>

reply_vars == <<parsed_order, customer_name, reply_pc, summary_lines, reply>>

thread_vars == <<tables, thread_text, thread_pc, thread_matches, thread_next,
                 thread_items, thread_order, thread_reply>>

db_vars == <<stock, stock_history, stock_before, history_before>>

handler_vars == <<message, handler_pc, handler_order, available_items,
                  unavailable_items, update_next, success>>

call_vars == <<call_pc, call_name, call_change, call_item, call_returned, calls_made>>

\* what the parser leaves alone: the inventory, the webhook handler and the
\* callers of update_stock
shop_vars == <<db_vars, handler_vars, call_vars>>

\* what a call of parse_hinglish_order leaves alone
outside_parse == <<match_vars, unit_vars, reply_vars, thread_vars, shop_vars>>

\* what a call of fuzzy_match_product leaves alone
outside_match == <<parse_vars, unit_vars, reply_vars, thread_vars, shop_vars>>

\* what a call of normalize_unit leaves alone
outside_unit == <<parse_vars, match_vars, reply_vars, thread_vars, shop_vars>>

\* what a call of generate_reply leaves alone
outside_reply == <<parse_vars, match_vars, unit_vars, thread_vars, shop_vars>>

\* what the threads sharing one OrderParser leave alone
outside_threads == <<parse_vars, match_vars, unit_vars, reply_vars, shop_vars>>

\* what the webhook handler leaves alone
outside_handler ==
    <<parse_vars, match_vars, unit_vars, reply_vars, thread_vars, call_vars>>

\* what the callers of update_stock leave alone
outside_calls ==
    <<parse_vars, match_vars, unit_vars, reply_vars, thread_vars, handler_vars>>

----------------------------------------------------------------------------
(* Characters *)

LowerAlpha ==
    <<"a","b","c","d","e","f","g","h","i","j","k","l","m",
      "n","o","p","q","r","s","t","u","v","w","x","y","z">>

UpperAlpha ==
    <<"A","B","C","D","E","F","G","H","I","J","K","L","M",
      "N","O","P","Q","R","S","T","U","V","W","X","Y","Z">>

Range(f) == {f[x] : x \in DOMAIN f}

HexDigits == {"0","1","2","3","4","5","6","7","8","9","A","B","C","D","E","F"}

\* The Devanagari block U+0900..U+097F of the pattern's character class
Devanagari == {"u09" \o h \o l : h \in {"0","1","2","3","4","5","6","7"}, l \in HexDigits}

\* The Devanagari digits U+0966..U+096F: decimal digits inside the block
DevanagariDigits == {"u096" \o l : l \in HexDigits \ {"0","1","2","3","4","5"}}

AsciiDigits == {"0","1","2","3","4","5","6","7","8","9"}

\* \d of a str pattern: any Unicode decimal digit
IsDigit(c) == c \in AsciiDigits \cup DevanagariDigits

\* \s of a str pattern, among the characters of the model
IsSpace(c) == c \in {" ", "\t", "\n", "\r"}

\* [a-zA-Z\u0900-\u097F] under re.IGNORECASE, among the characters of the model
IsWordChar(c) == c \in Range(LowerAlpha) \cup Range(UpperAlpha) \cup Devanagari

\* str.lower() on one character
LowerChar(c) ==
    IF c \in Range(UpperAlpha)
    THEN LowerAlpha[CHOOSE k \in 1..26 : UpperAlpha[k] = c]
    ELSE c

\* str.lower()
Lower(s) == [k \in 1..Len(s) |-> LowerChar(s[k])]

RECURSIVE LStrip(_)
LStrip(s) == IF s # <<>> /\ IsSpace(Head(s)) THEN LStrip(Tail(s)) ELSE s

RECURSIVE RStrip(_)
RStrip(s) ==
    IF s # <<>> /\ IsSpace(s[Len(s)]) THEN RStrip(SubSeq(s, 1, Len(s) - 1)) ELSE s

\* str.strip()
Strip(s) == RStrip(LStrip(s))

\* the character at position p, or "" past the end of the text
CharAt(s, p) == IF p \in 1..Len(s) THEN s[p] ELSE ""

----------------------------------------------------------------------------
(* The tables of OrderParser *)

\* UNIT_MAPPINGS, as the sequence of its (key, value) pairs
UNIT_MAPPINGS ==
    << << <<"k","g">>,                                  <<"k","g">> >>,
       << <<"k","i","l","o">>,                          <<"k","g">> >>,
       << <<"u0915","u093F","u0932","u094B">>,          <<"k","g">> >>,
       << <<"k","e","e","l","o">>,                      <<"k","g">> >>,
       << <<"g","m">>,                                  <<"g","m">> >>,
       << <<"g","r","a","m">>,                          <<"g","m">> >>,
       << <<"u0917","u094D","u0930","u093E","u092E">>,  <<"g","m">> >>,
       << <<"l","i","t","r","e">>,                      <<"l","i","t","r","e">> >>,
       << <<"l","i","t","e","r">>,                      <<"l","i","t","r","e">> >>,
       << <<"u0932","u0940","u091F","u0930">>,          <<"l","i","t","r","e">> >>,
       << <<"l">>,                                      <<"l","i","t","r","e">> >>,
       << <<"m","l">>,                                  <<"m","l">> >>,
       << <<"m","i","l","l","i","l","i","t","r","e">>,  <<"m","l">> >>,
       << <<"p","i","e","c","e">>,                      <<"p","i","e","c","e">> >>,
       << <<"p","c","s">>,                              <<"p","i","e","c","e">> >>,
       << <<"p","c">>,                                  <<"p","i","e","c","e">> >>,
       << <<"u092A","u0940","u0938">>,                  <<"p","i","e","c","e">> >>,
       << <<"p","a","c","k","e","t">>,                  <<"p","a","c","k","e","t">> >>,
       << <<"p","k","t">>,                              <<"p","a","c","k","e","t">> >>,
       << <<"u092A","u0948","u0915","u0947","u091F">>,  <<"p","a","c","k","e","t">> >>,
       << <<"b","o","t","t","l","e">>,                  <<"b","o","t","t","l","e">> >>,
       << <<"u092C","u094B","u0924","u0932">>,          <<"b","o","t","t","l","e">> >>,
       << <<"b","o","x">>,                              <<"b","o","x">> >>,
       << <<"u092C","u0949","u0915","u094D","u0938">>,  <<"b","o","x">> >>,
       << <<"d","o","z","e","n">>,                      <<"d","o","z","e","n">> >>,
       << <<"u0926","u0930","u094D","u091C","u0928">>,  <<"d","o","z","e","n">> >> >>

\* PRODUCT_ALIASES, as the sequence of its (standard_name, aliases) pairs in
\* declaration order (the iteration order of the dict)
PRODUCT_ALIASES ==
    << << <<"a","t","t","a">>,
          << <<"a","a","t","a">>, <<"u0906","u091F","u093E">>, <<"f","l","o","u","r">> >> >>,
       << <<"m","i","l","k">>,
          << <<"d","o","o","d","h">>, <<"u0926","u0942","u0927">> >> >>,
       << <<"r","i","c","e">>,
          << <<"c","h","a","w","a","l">>, <<"u091A","u093E","u0935","u0932">> >> >>,
       << <<"s","u","g","a","r">>,
          << <<"c","h","e","e","n","i">>, <<"u091A","u0940","u0928","u0940">> >> >>,
       << <<"o","i","l">>,
          << <<"t","e","l">>, <<"u0924","u0947","u0932">> >> >>,
       << <<"d","a","l">>,
          << <<"d","a","a","l">>, <<"u0926","u093E","u0932">>,
             <<"l","e","n","t","i","l","s">> >> >>,
       << <<"s","a","l","t">>,
          << <<"n","a","m","a","k">>, <<"u0928","u092E","u0915">> >> >>,
       << <<"t","e","a">>,
          << <<"c","h","a","i">>, <<"u091A","u093E","u092F">> >> >>,
       << <<"b","i","s","c","u","i","t">>,
          << <<"b","i","s","k","u","t">>,
             <<"u092C","u093F","u0938","u094D","u0915","u0941","u091F">> >> >> >>

\* self.known_products = list(self.PRODUCT_ALIASES.keys())
known_products == [k \in 1..Len(PRODUCT_ALIASES) |-> PRODUCT_ALIASES[k][1]]

\* the default of fuzzy_match_product's threshold parameter
DefaultThreshold == 70

----------------------------------------------------------------------------
(* normalize_unit *)

\* UNIT_MAPPINGS.get(key, default)
UnitGet(key, default) ==
    IF \E k \in 1..Len(UNIT_MAPPINGS) : UNIT_MAPPINGS[k][1] = key
    THEN UNIT_MAPPINGS[CHOOSE k \in 1..Len(UNIT_MAPPINGS) : UNIT_MAPPINGS[k][1] = key][2]
    ELSE default

\* normalize_unit marking a unit it does not know instead of returning it bare
NormalizeUnitMarksUnknown(unit_text) ==
    LET unit_lower == Strip(Lower(unit_text))
    IN  UnitGet(unit_lower, <<"?">> \o unit_lower)

normalize_unit(unit_text) ==
    LET unit_lower == Strip(Lower(unit_text))
    IN  UnitGet(unit_lower, unit_lower)

----------------------------------------------------------------------------
(* rapidfuzz: fuzz.ratio and process.extractOne *)

Max2(x, y) == IF x >= y THEN x ELSE y

\* One row of the longest-common-subsequence table: acc is the part of the
\* row for character c of the first string that is already filled in.
RECURSIVE LcsRow(_, _, _, _)
LcsRow(prev, c, s2, acc) ==
    LET j == Len(acc) + 1
    IN  IF j > Len(s2) THEN acc
        ELSE LET diag == IF j = 1 THEN 0 ELSE prev[j - 1]
                 left == IF j = 1 THEN 0 ELSE acc[j - 1]
                 cell == IF c = s2[j] THEN diag + 1 ELSE Max2(prev[j], left)
             IN  LcsRow(prev, c, s2, Append(acc, cell))

\* The rows of the table from the top: rows holds the rows already filled in,
\* one for each leading character of s1; the result is the last row.
RECURSIVE LcsRows(_, _, _)
LcsRows(s1, s2, rows) ==
    LET i    == Len(rows) + 1
        prev == IF i = 1 THEN [j \in 1..Len(s2) |-> 0] ELSE rows[i - 1]
    IN  IF i > Len(s1) THEN prev
        ELSE LcsRows(s1, s2, Append(rows, LcsRow(prev, s1[i], s2, <<>>)))

\* length of a longest common subsequence of s1 and s2
LcsLength(s1, s2) ==
    IF s2 = <<>> THEN 0
    ELSE LcsRows(s1, s2, <<>>)[Len(s2)]

\* fuzz.ratio(s1, s2): the normalized Indel similarity times 100, i.e.
\* 100 * 2 * lcs / (len(s1) + len(s2)), and 100 for two empty strings.
\* The score is kept as the fraction num / den.
ratio(s1, s2) ==
    LET maximum == Len(s1) + Len(s2)
    IN  IF maximum = 0 THEN [num |-> 100, den |-> 1]
        ELSE [num |-> 200 * LcsLength(s1, s2), den |-> maximum]

\* score >= t for an integer t
ScoreAtLeast(score, t) == score.num >= t * score.den

\* score > other
ScoreAbove(score, other) == score.num * other.den > other.num * score.den

\* score >= other
ScoreNotBelow(score, other) == score.num * other.den >= other.num * score.den

\* The loop of process.extractOne(query, choices, scorer=fuzz.ratio,
\* score_cutoff=...): k is the next choice, best the index of the result so far
\* (0: none), cutoff the current score_cutoff as a fraction. A choice replaces
\* the result when its score reaches the cutoff and is strictly above the
\* result's score; a score of 100 ends the loop.
RECURSIVE ExtractOneLoop(_, _, _, _, _)
ExtractOneLoop(query, choices, k, cutoff, best) ==
    IF k > Len(choices) THEN best
    ELSE LET score == ratio(query, choices[k])
             take  == /\ ScoreNotBelow(score, cutoff)
                      /\ (best = 0 \/ ScoreAbove(score, ratio(query, choices[best])))
         IN  IF take /\ ScoreAtLeast(score, 100) THEN k
             ELSE IF take THEN ExtractOneLoop(query, choices, k + 1, score, k)
             ELSE ExtractOneLoop(query, choices, k + 1, cutoff, best)

\* process.extractOne: the index in choices of the match, 0 for None
extractOne(query, choices, score_cutoff) ==
    ExtractOneLoop(query, choices, 1, [num |-> score_cutoff, den |-> 1], 0)

----------------------------------------------------------------------------
(* fuzzy_match_product *)

\* AliasLoop leaving the loop after its first turn: only the alias at a is
\* compared
AliasLoopFirstOnly(product_lower, aliases, a, t) ==
    /\ a <= Len(aliases)
    /\ ScoreAtLeast(ratio(product_lower, aliases[a]), t)

\* The inner loop "for alias in aliases" from alias a on: TRUE when an alias
\* of the list reaches the threshold.
RECURSIVE AliasLoop(_, _, _, _)
AliasLoop(product_lower, aliases, a, t) ==
    IF a > Len(aliases) THEN FALSE
    ELSE IF ScoreAtLeast(ratio(product_lower, aliases[a]), t) THEN TRUE
    ELSE AliasLoop(product_lower, aliases, a + 1, t)

\* The outer loop "for standard_name, aliases in PRODUCT_ALIASES.items()" from
\* entry e on: the index of the entry whose standard_name is returned, 0 when
\* the loop ends without a return.
RECURSIVE EntryLoop(_, _, _)
EntryLoop(product_lower, e, t) ==
    IF e > Len(PRODUCT_ALIASES) THEN 0
    ELSE IF AliasLoop(product_lower, PRODUCT_ALIASES[e][2], 1, t) THEN e
    ELSE EntryLoop(product_lower, e + 1, t)

\* AliasPhase as a best-match policy: the entry of the highest-scoring alias
\* that reaches the threshold
AliasPhaseBestMatch(product_lower, t) ==
    LET positions == {p \in (1..Len(PRODUCT_ALIASES)) \X (1..3) :
                         p[2] <= Len(PRODUCT_ALIASES[p[1]][2])}
        score(p)  == ratio(product_lower, PRODUCT_ALIASES[p[1]][2][p[2]])
        hits      == {p \in positions : ScoreAtLeast(score(p), t)}
    IN  IF hits = {} THEN 0
        ELSE (CHOOSE p \in hits : \A q \in hits : ScoreNotBelow(score(p), score(q)))[1]

\* "Check aliases"
AliasPhase(product_lower, t) == EntryLoop(product_lower, 1, t)

\* CatalogPhase keeping the last of several equal top scores
CatalogPhaseLastOfTies(product_lower, t) ==
    LET score(k) == ratio(product_lower, known_products[k])
        hits     == {k \in 1..Len(known_products) :
                        /\ ScoreAtLeast(score(k), t)
                        /\ \A j \in 1..Len(known_products) : ScoreNotBelow(score(k), score(j))}
    IN  IF hits = {} THEN 0 ELSE CHOOSE k \in hits : \A j \in hits : j <= k

\* "Check known products directly"
CatalogPhase(product_lower, t) == extractOne(product_lower, known_products, t)

\* "Return original if no match"
Passthrough(text) == Lower(text)

fuzzy_match_product(text, t) ==
    LET product_lower == Strip(Lower(text))
        e == AliasPhase(product_lower, t)
        m == CatalogPhase(product_lower, t)
    IN  IF e # 0 THEN PRODUCT_ALIASES[e][1]
        ELSE IF m # 0 THEN known_products[m]
        ELSE Passthrough(text)

----------------------------------------------------------------------------
\* The pattern of parse_hinglish_order, with W = [a-zA-Z\u0900-\u097F]:
\*     (\d+(?:\.\d+)?)\s*(W+)?\s+(W+(?:\s+W+)*)
\* Positions are indices into the text; a piece of the pattern that ends at e
\* has consumed the characters before e. Every repetition is greedy: the
\* matcher tries the longest repetition first and gives characters back one
\* at a time while the rest of the pattern fails.

MaxOf(S) == CHOOSE x \in S : \A y \in S : y <= x

\* number of consecutive digits from p on
RECURSIVE DigitRun(_, _)
DigitRun(s, p) == IF IsDigit(CharAt(s, p)) THEN 1 + DigitRun(s, p + 1) ELSE 0

\* number of consecutive whitespace characters from p on
RECURSIVE SpaceRun(_, _)
SpaceRun(s, p) == IF IsSpace(CharAt(s, p)) THEN 1 + SpaceRun(s, p + 1) ELSE 0

\* number of consecutive word characters from p on
RECURSIVE WordRun(_, _)
WordRun(s, p) == IF IsWordChar(CharAt(s, p)) THEN 1 + WordRun(s, p + 1) ELSE 0

\* \s+ followed by the first word character of group 3, from p: the lengths of
\* whitespace after which group 3 can start
SeparatorLengths(s, p) == {w \in 1..SpaceRun(s, p) : IsWordChar(CharAt(s, p + w))}

\* group 3 from its first character at p: the end of
\* [a-zA-Z\u0900-\u097F]+(?:\s+[a-zA-Z\u0900-\u097F]+)*. Nothing follows group 3 in the pattern,
\* so its greedy repetitions are never given back.
RECURSIVE ProductEnd(_, _)
ProductEnd(s, p) ==
    LET e == p + WordRun(s, p)
    IN  IF SeparatorLengths(s, e) # {}
        THEN ProductEnd(s, e + MaxOf(SeparatorLengths(s, e)))
        ELSE e

\* group 2 and what follows it, from p: the lengths of group 2 (0: the
\* optional group does not take part) after which \s+ and group 3 match
UnitLengths(s, p) == {u \in 0..WordRun(s, p) : SeparatorLengths(s, p + u) # {}}

\* \s* and what follows it, from p: the lengths of \s* after which the rest matches
GapLengths(s, p) == {g \in 0..SpaceRun(s, p) : UnitLengths(s, p + g) # {}}

\* the ends of group 1, \d+(?:\.\d+)?, from p, in the order the matcher
\* tries them for an integer part of i digits: with the longest fraction
\* first, without a fraction last
NumberEndsFor(s, p, i) ==
    LET f == IF CharAt(s, p + i) = "." THEN DigitRun(s, p + i + 1) ELSE 0
    IN  [k \in 1..(f + 1) |-> IF k <= f THEN p + i + 1 + (f - k + 1) ELSE p + i]

\* the ends of group 1 from p in the order the matcher tries them: the
\* longest integer part first
RECURSIVE NumberEndsFrom(_, _, _)
NumberEndsFrom(s, p, i) ==
    IF i = 0 THEN <<>> ELSE NumberEndsFor(s, p, i) \o NumberEndsFrom(s, p, i - 1)

NumberEnds(s, p) == NumberEndsFrom(s, p, DigitRun(s, p))

\* the first end of group 1 in ends, from k on, after which the rest of the
\* pattern matches; 0 when there is none
RECURSIVE FirstNumberEnd(_, _, _)
FirstNumberEnd(s, ends, k) ==
    IF k > Len(ends) THEN 0
    ELSE IF GapLengths(s, ends[k]) # {} THEN ends[k]
    ELSE FirstNumberEnd(s, ends, k + 1)

\* text[from .. to-1]
Slice(s, from, to) == SubSeq(s, from, to - 1)

\* The match of the pattern that starts at p: its end and its three groups,
\* or end = 0 when the pattern does not match at p.
MatchAt(s, p) ==
    LET n == FirstNumberEnd(s, NumberEnds(s, p), 1)
    IN  IF n = 0 THEN [end |-> 0]
        ELSE LET g  == MaxOf(GapLengths(s, n))
                 u  == MaxOf(UnitLengths(s, n + g))
                 w  == MaxOf(SeparatorLengths(s, n + g + u))
                 p3 == n + g + u + w
                 e  == ProductEnd(s, p3)
             IN  [end          |-> e,
                  quantity_str |-> Slice(s, p, n),
                  unit_str     |-> Slice(s, n + g, n + g + u),
                  product_str  |-> Slice(s, p3, e)]

\* re.findall(pattern, text) from position p on: the groups of the
\* non-overlapping matches, left to right
RECURSIVE FindAllFrom(_, _)
FindAllFrom(s, p) ==
    IF p > Len(s) THEN <<>>
    ELSE LET m == MatchAt(s, p)
         IN  IF m.end = 0 THEN FindAllFrom(s, p + 1)
             ELSE <<[quantity_str |-> m.quantity_str,
                     unit_str     |-> m.unit_str,
                     product_str  |-> m.product_str]>> \o FindAllFrom(s, m.end)

findall(s) == FindAllFrom(s, 1)

----------------------------------------------------------------------------
(* float(quantity_str) *)

AsciiDigitSeq == <<"0","1","2","3","4","5","6","7","8","9">>

DevanagariDigitSeq ==
    <<"u0966","u0967","u0968","u0969","u096A","u096B","u096C","u096D","u096E","u096F">>

\* the value of a decimal digit
DigitValue(c) ==
    IF c \in AsciiDigits
    THEN (CHOOSE k \in 1..10 : AsciiDigitSeq[k] = c) - 1
    ELSE (CHOOSE k \in 1..10 : DevanagariDigitSeq[k] = c) - 1

\* the integer written by a sequence of digits
RECURSIVE DigitsValue(_)
DigitsValue(ds) ==
    IF ds = <<>> THEN 0
    ELSE 10 * DigitsValue(SubSeq(ds, 1, Len(ds) - 1)) + DigitValue(ds[Len(ds)])

RECURSIVE Pow10(_)
Pow10(k) == IF k = 0 THEN 1 ELSE 10 * Pow10(k - 1)

\* a decimal fraction num / den (den a power of ten) without trailing zeros,
\* so that equal numbers are equal records
RECURSIVE Reduce(_)
Reduce(q) ==
    IF q.den > 1 /\ q.num % 10 = 0
    THEN Reduce([num |-> q.num \div 10, den |-> q.den \div 10])
    ELSE q

\* float(quantity_str) for a text matched by \d+(?:\.\d+)?: the number as
\* the decimal fraction num / den. float() accepts every such text (any
\* Unicode decimal digit is a digit to it), so no ValueError is raised.
float(quantity_str) ==
    LET dot      == {k \in 1..Len(quantity_str) : quantity_str[k] = "."}
        digits   == SelectSeq(quantity_str, IsDigit)
        fraction == IF dot = {} THEN 0 ELSE Len(quantity_str) - MaxOf(dot)
    IN  Reduce([num |-> DigitsValue(digits), den |-> Pow10(fraction)])

\* float(quantity_str) returns a number: the text is a decimal numeral,
\* digits with at most one point. For any other text that the pattern could
\* hand over, float raises ValueError.
FloatAccepts(quantity_str) ==
    /\ \E k \in 1..Len(quantity_str) : IsDigit(quantity_str[k])
    /\ \A k \in 1..Len(quantity_str) : IsDigit(quantity_str[k]) \/ quantity_str[k] = "."
    /\ Cardinality({k \in 1..Len(quantity_str) : quantity_str[k] = "."}) <= 1

----------------------------------------------------------------------------
(* parse_hinglish_order *)

Space == <<" ">>

\* the literal list ['kg', 'litre', 'piece', 'packet'] of the unit test
UnitAllowlist ==
    { <<"k","g">>, <<"l","i","t","r","e">>, <<"p","i","e","c","e">>,
      <<"p","a","c","k","e","t">> }

Piece == <<"p","i","e","c","e">>

\* "if not unit_str or unit_str.lower() in [...]"
UnitAccepted(unit_str) == unit_str = <<>> \/ Lower(unit_str) \in UnitAllowlist

\* the unit of the item
ItemUnit(unit_str) ==
    IF UnitAccepted(unit_str)
    THEN (IF unit_str # <<>> THEN normalize_unit(unit_str) ELSE Piece)
    ELSE Piece

\* ItemProductStr without the re-merge of a token that is no unit
ItemProductStrDropsToken(unit_str, product_str) == product_str

\* product_str as handed to fuzzy_match_product
ItemProductStr(unit_str, product_str) ==
    IF UnitAccepted(unit_str) THEN product_str
    ELSE unit_str \o Space \o product_str

\* f"{quantity_str} {unit_str} {product_str}".strip(), product_str being the
\* variable after the unit test
ItemOriginalText(quantity_str, unit_str, product_str) ==
    Strip(quantity_str \o Space \o unit_str \o Space \o product_str)

\* the dict appended to items for one match
MakeItem(m) ==
    LET product_str == ItemProductStr(m.unit_str, m.product_str)
    IN  [name          |-> fuzzy_match_product(product_str, DefaultThreshold),
         quantity      |-> float(m.quantity_str),
         unit          |-> ItemUnit(m.unit_str),
         original_text |-> ItemOriginalText(m.quantity_str, m.unit_str, product_str)]

\* MakeOrder keeping the stripped message
MakeOrderStripsText(its, text) ==
    [items |-> its, original_text |-> Strip(text), total_items |-> Len(its)]

\* the returned dict
MakeOrder(its, text) ==
    [items |-> its, original_text |-> text, total_items |-> Len(its)]

\* the value of order before the function has returned
NoOrder == [items |-> <<>>, original_text |-> <<>>, total_items |-> -1]

----------------------------------------------------------------------------
(* generate_reply *)

\* OrderNotUnderstood testing only for a missing order
OrderNotUnderstoodMissingOnly(po) == po = NoOrder

\* "if not parsed_order or not parsed_order.get('items')": None is NoOrder
OrderNotUnderstood(po) == po = NoOrder \/ po.items = <<>>

\* f"Sorry {customer_name}, I couldn't understand your order. Please try again."
SorryText(name) ==
    <<"S","o","r","r","y"," ">>
    \o name \o
    <<","," ","I"," ","c","o","u","l","d","n","'","t"," ","u","n","d","e",
      "r","s","t","a","n","d"," ","y","o","u","r"," ","o","r","d","e","r",
      "."," ","P","l","e","a","s","e"," ","t","r","y"," ","a","g","a","i",
      "n",".">>

\* f"Thank you {customer_name}! Your order:"
Greeting(name) ==
    <<"T","h","a","n","k"," ","y","o","u"," ">>
    \o name \o
    <<"!"," ","Y","o","u","r"," ","o","r","d","e","r",":">>

\* str() of a natural number
RECURSIVE IntStr(_)
IntStr(n) ==
    IF n < 10 THEN <<AsciiDigitSeq[n + 1]>>
    ELSE IntStr(n \div 10) \o <<AsciiDigitSeq[(n % 10) + 1]>>

\* the last width digits of n
RECURSIVE LastDigits(_, _)
LastDigits(n, width) ==
    IF width = 0 THEN <<>>
    ELSE LastDigits(n \div 10, width - 1) \o <<AsciiDigitSeq[(n % 10) + 1]>>

\* the number of zeros of a power of ten
RECURSIVE Log10(_)
Log10(d) == IF d = 1 THEN 0 ELSE 1 + Log10(d \div 10)

\* str() of the float num / den in fixed notation, which Python uses for 0
\* and for 1e-4 <= x < 1e16: "2.0", "0.5", "500.0"
FloatStr(x) ==
    IntStr(x.num \div x.den) \o <<".">> \o
        (IF x.den = 1 THEN <<"0">> ELSE LastDigits(x.num % x.den, Log10(x.den)))

IsCased(c) == c \in Range(LowerAlpha) \cup Range(UpperAlpha)

\* str.upper() on one character
UpperChar(c) ==
    IF c \in Range(LowerAlpha)
    THEN UpperAlpha[CHOOSE k \in 1..26 : LowerAlpha[k] = c]
    ELSE c

\* str.title(): a cased character is capitalised when the character before
\* it is not cased, and lowercased otherwise
Title(s) ==
    [k \in 1..Len(s) |->
        IF ~IsCased(s[k]) THEN s[k]
        ELSE IF k > 1 /\ IsCased(s[k - 1]) THEN LowerChar(s[k])
        ELSE UpperChar(s[k])]

\* enumerate(seq, start) as a sequence of <<idx, element>>
enumerate(seq, start) == [k \in 1..Len(seq) |-> <<start + k - 1, seq[k]>>]

\* f"{idx}. {item['quantity']} {item['unit']} {item['name'].title()}"
ItemLine(idx, item) ==
    IntStr(idx) \o <<".", " ">> \o FloatStr(item.quantity) \o Space
        \o item.unit \o Space \o Title(item.name)

\* "\nYour order is confirmed! " and the check mark U+2705
ConfirmedLine ==
    <<"\n","Y","o","u","r"," ","o","r","d","e","r"," ","i","s"," ","c","o",
      "n","f","i","r","m","e","d","!"," ","u2705">>

\* "We'll prepare it right away."
PrepareLine ==
    <<"W","e","'","l","l"," ","p","r","e","p","a","r","e"," ","i","t"," ",
      "r","i","g","h","t"," ","a","w","a","y",".">>

\* sep.join(lines)
RECURSIVE Join(_, _)
Join(sep, lines) ==
    IF lines = <<>> THEN <<>>
    ELSE IF Len(lines) = 1 THEN lines[1]
    ELSE lines[1] \o sep \o Join(sep, Tail(lines))

\* generate_reply as one call
generate_reply(po, name) ==
    IF OrderNotUnderstood(po) THEN SorryText(name)
    ELSE LET numbered == enumerate(po.items, 1)
         IN  Join(<<"\n">>,
                  <<Greeting(name)>>
                      \o [k \in 1..Len(numbered) |-> ItemLine(numbered[k][1], numbered[k][2])]
                      \o <<ConfirmedLine, PrepareLine>>)

----------------------------------------------------------------------------
(* The inputs *)

\* every text of at most n characters of alphabet
RECURSIVE Texts(_, _)
Texts(alphabet, n) ==
    IF n = 0 THEN {<<>>}
    ELSE LET shorter == Texts(alphabet, n - 1)
         IN  shorter \cup {Append(x, c) : x \in shorter, c \in alphabet}

\* "2 kg atta aur 1 litre milk chahiye"
MsgAttaMilk ==
    <<"2"," ","k","g"," ","a","t","t","a"," ","a","u","r"," ","1"," ","l","i",
      "t","r","e"," ","m","i","l","k"," ","c","h","a","h","i","y","e">>

\* "5 packet biscuit and 500 gm sugar"
MsgBiscuitSugar ==
    <<"5"," ","p","a","c","k","e","t"," ","b","i","s","c","u","i","t"," ","a",
      "n","d"," ","5","0","0"," ","g","m"," ","s","u","g","a","r">>

\* "1 kg chawal, 2 litre doodh"
MsgChawalDoodh ==
    <<"1"," ","k","g"," ","c","h","a","w","a","l",","," ","2"," ","l","i","t",
      "r","e"," ","d","o","o","d","h">>

\* "10 piece bread and 1 bottle oil"
MsgBreadOil ==
    <<"1","0"," ","p","i","e","c","e"," ","b","r","e","a","d"," ","a","n","d",
      " ","1"," ","b","o","t","t","l","e"," ","o","i","l">>

\* "1 lux soap"
MsgLuxSoap ==
    <<"1"," ","l","u","x"," ","s","o","a","p">>

\* "0 kg atta"
MsgZeroAtta ==
    <<"0"," ","k","g"," ","a","t","t","a">>

\* "2 kilo atta"
MsgKiloAtta ==
    <<"2"," ","k","i","l","o"," ","a","t","t","a">>

\* "2 KG Atta"
MsgUpperCase ==
    <<"2"," ","K","G"," ","A","t","t","a">>

\* "2 <kilo> <aata> in Devanagari"
MsgDevanagari ==
    <<"2"," ","u0915","u093F","u0932","u094B"," ","u0906","u091F","u093E">>

\* "3 doodh"
MsgNoUnit ==
    <<"3"," ","d","o","o","d","h">>

\* "0.5 litre tel"
MsgHalfLitre ==
    <<"0",".","5"," ","l","i","t","r","e"," ","t","e","l">>

ExampleMessages ==
    {MsgAttaMilk, MsgBiscuitSugar, MsgChawalDoodh, MsgBreadOil,
     MsgLuxSoap, MsgZeroAtta, MsgKiloAtta, MsgUpperCase,
     MsgDevanagari, MsgNoUnit, MsgHalfLitre}

MessageAlphabet == {"0", "2", ".", " ", "k", "G", "a"}

MaxMessageLen == 5

\* "2 <unit> atta" for every spelling of a unit in UNIT_MAPPINGS
UnitMessages ==
    {<<"2", " ">> \o UNIT_MAPPINGS[k][1] \o <<" ", "a", "t", "t", "a">> :
         k \in 1..Len(UNIT_MAPPINGS)}

\* the messages parse_hinglish_order is called with
Messages ==
    ExampleMessages \cup UnitMessages \cup Texts(MessageAlphabet, MaxMessageLen)

ProductAlphabet == {"a", "l", "t", "T", " "}

MaxProductLen == 3

\* "xyzzy123"
TextXyzzy == <<"x","y","z","z","y","1","2","3">>

\* every standard name and every alias of PRODUCT_ALIASES
DeclaredTexts ==
    UNION {{PRODUCT_ALIASES[e][1]} \cup Range(PRODUCT_ALIASES[e][2]) :
              e \in 1..Len(PRODUCT_ALIASES)}

\* the texts fuzzy_match_product is called with
ProductTexts ==
    {TextXyzzy} \cup DeclaredTexts \cup Texts(ProductAlphabet, MaxProductLen)

\* the thresholds fuzzy_match_product is called with. rapidfuzz computes the
\* score in double precision, (1.0 - distance / maximum) * 100; at these
\* thresholds the computed score compares with the threshold exactly as the
\* fraction of ratio does.
Thresholds == {0, 25, 40, 50, 60, DefaultThreshold, 75, 80, 100}

\* the keys of UNIT_MAPPINGS
UnitKeys == {UNIT_MAPPINGS[k][1] : k \in 1..Len(UNIT_MAPPINGS)}

UnitAlphabet == {"k", "g", "K", "x", " "}

MaxUnitLen == 3

\* the texts normalize_unit is called with: short texts, the keys of the
\* table, and the keys with whitespace around them
UnitTexts ==
    Texts(UnitAlphabet, MaxUnitLen) \cup UnitKeys
        \cup {<<" ">> \o key \o <<" ", " ">> : key \in UnitKeys}

ReplyAlphabet == {"2", ".", " ", "a"}

MaxReplyMessageLen == 5

\* the messages whose parsed order is handed to generate_reply
ReplyMessages == ExampleMessages \cup Texts(ReplyAlphabet, MaxReplyMessageLen)

\* the customer names generate_reply is called with: "Rajesh", "Sunita ji"
CustomerNames ==
    { <<"R","a","j","e","s","h">>, <<"S","u","n","i","t","a"," ","j","i">> }

\* the threads that share one OrderParser
Threads == {"t1", "t2"}

\* the messages the threads parse
ThreadMessages ==
    {<<>>, MsgAttaMilk, MsgChawalDoodh, MsgLuxSoap, MsgNoUnit, MsgHalfLitre}

\* "Rajesh"
Rajesh == <<"R","a","j","e","s","h">>

----------------------------------------------------------------------------
(* parse_hinglish_order as a process *)

ParseIdle ==
    /\ order_text = <<>>
    /\ pc = "idle"
    /\ matches = <<>>
    /\ next_match = 1
    /\ items = <<>>
    /\ matcher_args = <<>>
    /\ order = NoOrder

MatchIdle ==
    /\ product_text = <<>>
    /\ threshold = DefaultThreshold
    /\ match_pc = "idle"
    /\ match_result = <<>>

UnitIdle ==
    /\ unit_input = <<>>
    /\ unit_pc = "idle"
    /\ unit_once = <<>>
    /\ unit_twice = <<>>

ReplyIdle ==
    /\ parsed_order = NoOrder
    /\ customer_name = <<>>
    /\ reply_pc = "idle"
    /\ summary_lines = <<>>
    /\ reply = <<>>

\* the class attributes and self.known_products of the shared OrderParser
ParserTables ==
    [UNIT_MAPPINGS   |-> UNIT_MAPPINGS,
     PRODUCT_ALIASES |-> PRODUCT_ALIASES,
     known_products  |-> known_products]

ThreadsIdle ==
    /\ tables = ParserTables
    /\ thread_text = [t \in Threads |-> <<>>]
    /\ thread_pc = [t \in Threads |-> "idle"]
    /\ thread_matches = [t \in Threads |-> <<>>]
    /\ thread_next = [t \in Threads |-> 1]
    /\ thread_items = [t \in Threads |-> <<>>]
    /\ thread_order = [t \in Threads |-> NoOrder]
    /\ thread_reply = [t \in Threads |-> <<>>]

DbIdle ==
    /\ stock = <<>>
    /\ stock_history = <<>>
    /\ stock_before = <<>>
    /\ history_before = <<>>

HandlerIdle ==
    /\ message = <<>>
    /\ handler_pc = "idle"
    /\ handler_order = NoOrder
    /\ available_items = <<>>
    /\ unavailable_items = <<>>
    /\ update_next = 1
    /\ success = "none"

\* the callers of update_stock
Callers == {"c1", "c2"}

CallsIdle ==
    /\ call_pc = [c \in Callers |-> "idle"]
    /\ call_name = [c \in Callers |-> <<>>]
    /\ call_change = [c \in Callers |-> [num |-> 0, den |-> 1]]
    /\ call_item = [c \in Callers |-> <<>>]
    /\ call_returned = [c \in Callers |-> FALSE]
    /\ calls_made = [c \in Callers |-> 0]

\* the call parse_hinglish_order(order_text)
Init ==
    /\ order_text \in Messages
    /\ pc = "findall"
    /\ matches = <<>>
    /\ next_match = 1
    /\ items = <<>>
    /\ matcher_args = <<>>
    /\ order = NoOrder
    /\ MatchIdle
    /\ UnitIdle
    /\ ReplyIdle
    /\ ThreadsIdle
    /\ DbIdle
    /\ HandlerIdle
    /\ CallsIdle

\* matches = re.findall(pattern, order_text, re.IGNORECASE); items = []
FindAll ==
    /\ pc = "findall"
    /\ matches' = findall(order_text)
    /\ pc' = "loop"
    /\ UNCHANGED <<order_text, next_match, items, matcher_args, order>>
    /\ UNCHANGED outside_parse

\* LoopBody putting the new item in front of the list
LoopBodyPrepends ==
    /\ pc = "loop"
    /\ next_match <= Len(matches)
    /\ LET m == matches[next_match]
       IN  IF FloatAccepts(m.quantity_str)
           THEN /\ items' = <<MakeItem(m)>> \o items
                /\ matcher_args' = Append(matcher_args, ItemProductStr(m.unit_str, m.product_str))
           ELSE UNCHANGED <<items, matcher_args>>
    /\ next_match' = next_match + 1
    /\ UNCHANGED <<order_text, pc, matches, order>>
    /\ UNCHANGED outside_parse

\* one turn of "for match in matches"; "except ValueError: continue" leaves
\* the list as it is
LoopBody ==
    /\ pc = "loop"
    /\ next_match <= Len(matches)
    /\ LET m == matches[next_match]
       IN  IF FloatAccepts(m.quantity_str)
           THEN /\ items' = Append(items, MakeItem(m))
                /\ matcher_args' = Append(matcher_args, ItemProductStr(m.unit_str, m.product_str))
           ELSE UNCHANGED <<items, matcher_args>>
    /\ next_match' = next_match + 1
    /\ UNCHANGED <<order_text, pc, matches, order>>
    /\ UNCHANGED outside_parse

\* the return statement
Return ==
    /\ pc = "loop"
    /\ next_match > Len(matches)
    /\ order' = MakeOrder(items, order_text)
    /\ pc' = "done"
    /\ UNCHANGED <<order_text, matches, next_match, items, matcher_args>>
    /\ UNCHANGED outside_parse

Next == FindAll \/ LoopBody \/ Return

Spec == Init /\ [][Next]_vars

----------------------------------------------------------------------------
(* fuzzy_match_product as a process *)

\* the call fuzzy_match_product(product_text, threshold)
MatchInit ==
    /\ product_text \in ProductTexts
    /\ threshold \in Thresholds
    /\ match_pc = "aliases"
    /\ match_result = <<>>
    /\ ParseIdle
    /\ UnitIdle
    /\ ReplyIdle
    /\ ThreadsIdle
    /\ DbIdle
    /\ HandlerIdle
    /\ CallsIdle

\* product_lower = product_text.lower().strip()
product_lower == Strip(Lower(product_text))

\* the alias loops return a standard name
AliasReturn ==
    /\ match_pc = "aliases"
    /\ AliasPhase(product_lower, threshold) # 0
    /\ match_result' = PRODUCT_ALIASES[AliasPhase(product_lower, threshold)][1]
    /\ match_pc' = "done"
    /\ UNCHANGED <<product_text, threshold>>
    /\ UNCHANGED outside_match

\* the alias loops end without a return
AliasMiss ==
    /\ match_pc = "aliases"
    /\ AliasPhase(product_lower, threshold) = 0
    /\ match_pc' = "catalog"
    /\ UNCHANGED <<product_text, threshold, match_result>>
    /\ UNCHANGED outside_match

\* "if match: return match[0]"
CatalogReturn ==
    /\ match_pc = "catalog"
    /\ CatalogPhase(product_lower, threshold) # 0
    /\ match_result' = known_products[CatalogPhase(product_lower, threshold)]
    /\ match_pc' = "done"
    /\ UNCHANGED <<product_text, threshold>>
    /\ UNCHANGED outside_match

\* "return product_text.lower()"
PassthroughReturn ==
    /\ match_pc = "catalog"
    /\ CatalogPhase(product_lower, threshold) = 0
    /\ match_result' = Passthrough(product_text)
    /\ match_pc' = "done"
    /\ UNCHANGED <<product_text, threshold>>
    /\ UNCHANGED outside_match

MatchNext == AliasReturn \/ AliasMiss \/ CatalogReturn \/ PassthroughReturn

MatchSpec == MatchInit /\ [][MatchNext]_vars

----------------------------------------------------------------------------
(* normalize_unit applied to a text and then to its own result *)

\* the call normalize_unit(unit_input)
UnitInit ==
    /\ unit_input \in UnitTexts
    /\ unit_pc = "first"
    /\ unit_once = <<>>
    /\ unit_twice = <<>>
    /\ ParseIdle
    /\ MatchIdle
    /\ ReplyIdle
    /\ ThreadsIdle
    /\ DbIdle
    /\ HandlerIdle
    /\ CallsIdle

\* normalize_unit(unit_input) returns
NormalizeOnce ==
    /\ unit_pc = "first"
    /\ unit_once' = normalize_unit(unit_input)
    /\ unit_pc' = "second"
    /\ UNCHANGED <<unit_input, unit_twice>>
    /\ UNCHANGED outside_unit

\* normalize_unit(unit_once) returns
NormalizeAgain ==
    /\ unit_pc = "second"
    /\ unit_twice' = normalize_unit(unit_once)
    /\ unit_pc' = "done"
    /\ UNCHANGED <<unit_input, unit_once>>
    /\ UNCHANGED outside_unit

UnitNext == NormalizeOnce \/ NormalizeAgain

UnitSpec == UnitInit /\ [][UnitNext]_vars

----------------------------------------------------------------------------
(* parse_hinglish_order followed by generate_reply on the returned order,  *)
(* as in the loop over test_orders; and generate_reply without an order    *)

\* parsed = parser.parse_hinglish_order(order_text) is called, or
\* generate_reply(None, customer_name)
ReplyInit ==
    /\ customer_name \in CustomerNames
    /\ parsed_order = NoOrder
    /\ summary_lines = <<>>
    /\ reply = <<>>
    /\ MatchIdle
    /\ UnitIdle
    /\ ThreadsIdle
    /\ DbIdle
    /\ HandlerIdle
    /\ CallsIdle
    /\ \/ /\ order_text \in ReplyMessages
          /\ pc = "findall"
          /\ matches = <<>>
          /\ next_match = 1
          /\ items = <<>>
          /\ matcher_args = <<>>
          /\ order = NoOrder
          /\ reply_pc = "parsing"
       \/ /\ ParseIdle
          /\ reply_pc = "called"

\* the call generate_reply(parsed, customer_name)
ReplyCall ==
    /\ reply_pc = "parsing"
    /\ pc = "done"
    /\ parsed_order' = order
    /\ reply_pc' = "called"
    /\ UNCHANGED <<customer_name, summary_lines, reply>>
    /\ UNCHANGED outside_reply

\* the early return
ReplySorry ==
    /\ reply_pc = "called"
    /\ OrderNotUnderstood(parsed_order)
    /\ reply' = SorryText(customer_name)
    /\ reply_pc' = "done"
    /\ UNCHANGED <<parsed_order, customer_name, summary_lines>>
    /\ UNCHANGED outside_reply

\* summary_lines = [greeting]
ReplyGreeting ==
    /\ reply_pc = "called"
    /\ ~OrderNotUnderstood(parsed_order)
    /\ summary_lines' = <<Greeting(customer_name)>>
    /\ reply_pc' = "items"
    /\ UNCHANGED <<parsed_order, customer_name, reply>>
    /\ UNCHANGED outside_reply

\* ReplyItems numbering from 0, as enumerate(items) does
ReplyItemsFromZero == enumerate(parsed_order.items, 0)

\* enumerate(items, 1)
ReplyItems == enumerate(parsed_order.items, 1)

\* one turn of "for idx, item in enumerate(items, 1)"
ReplyItemLine ==
    /\ reply_pc = "items"
    /\ Len(summary_lines) <= Len(parsed_order.items)
    /\ LET turn == ReplyItems[Len(summary_lines)]
       IN  summary_lines' = Append(summary_lines, ItemLine(turn[1], turn[2]))
    /\ UNCHANGED <<parsed_order, customer_name, reply_pc, reply>>
    /\ UNCHANGED outside_reply

\* the two trailer lines and the return
ReplyJoin ==
    /\ reply_pc = "items"
    /\ Len(summary_lines) > Len(parsed_order.items)
    /\ summary_lines' = summary_lines \o <<ConfirmedLine, PrepareLine>>
    /\ reply' = Join(<<"\n">>, summary_lines')
    /\ reply_pc' = "done"
    /\ UNCHANGED <<parsed_order, customer_name>>
    /\ UNCHANGED outside_reply

ReplyNext ==
    \/ FindAll \/ LoopBody \/ Return
    \/ ReplyCall \/ ReplySorry \/ ReplyGreeting \/ ReplyItemLine \/ ReplyJoin

ReplySpec == ReplyInit /\ [][ReplyNext]_vars

----------------------------------------------------------------------------
(* Two threads that share one OrderParser: each calls parse_hinglish_order *)
(* and then generate_reply on the order it got. The statements of the two  *)
(* calls interleave; matches, items and the loop position are locals of    *)
(* each call, the tables belong to the shared object.                      *)

ThreadInit ==
    /\ tables = ParserTables
    /\ thread_text \in [Threads -> ThreadMessages]
    /\ thread_pc = [t \in Threads |-> "findall"]
    /\ thread_matches = [t \in Threads |-> <<>>]
    /\ thread_next = [t \in Threads |-> 1]
    /\ thread_items = [t \in Threads |-> <<>>]
    /\ thread_order = [t \in Threads |-> NoOrder]
    /\ thread_reply = [t \in Threads |-> <<>>]
    /\ ParseIdle
    /\ MatchIdle
    /\ UnitIdle
    /\ ReplyIdle
    /\ DbIdle
    /\ HandlerIdle
    /\ CallsIdle

\* matches = re.findall(...); items = []
ThreadFindAll(t) ==
    /\ thread_pc[t] = "findall"
    /\ thread_matches' = [thread_matches EXCEPT ![t] = findall(thread_text[t])]
    /\ thread_pc' = [thread_pc EXCEPT ![t] = "loop"]
    /\ UNCHANGED <<tables, thread_text, thread_next, thread_items, thread_order, thread_reply>>
    /\ UNCHANGED outside_threads

\* ThreadLoopBody with the list of items kept on the shared object
ThreadLoopBodySharedItems(t) ==
    /\ thread_pc[t] = "loop"
    /\ thread_next[t] <= Len(thread_matches[t])
    /\ LET m == thread_matches[t][thread_next[t]]
       IN  IF FloatAccepts(m.quantity_str)
           THEN thread_items' = [u \in Threads |-> Append(thread_items[u], MakeItem(m))]
           ELSE UNCHANGED thread_items
    /\ thread_next' = [thread_next EXCEPT ![t] = @ + 1]
    /\ UNCHANGED <<tables, thread_text, thread_pc, thread_matches, thread_order, thread_reply>>
    /\ UNCHANGED outside_threads

\* one turn of "for match in matches", normalize_unit and
\* fuzzy_match_product included: they read the tables
ThreadLoopBody(t) ==
    /\ thread_pc[t] = "loop"
    /\ thread_next[t] <= Len(thread_matches[t])
    /\ LET m == thread_matches[t][thread_next[t]]
       IN  IF FloatAccepts(m.quantity_str)
           THEN thread_items' = [thread_items EXCEPT ![t] = Append(@, MakeItem(m))]
           ELSE UNCHANGED thread_items
    /\ thread_next' = [thread_next EXCEPT ![t] = @ + 1]
    /\ UNCHANGED <<tables, thread_text, thread_pc, thread_matches, thread_order, thread_reply>>
    /\ UNCHANGED outside_threads

\* the return of parse_hinglish_order
ThreadReturn(t) ==
    /\ thread_pc[t] = "loop"
    /\ thread_next[t] > Len(thread_matches[t])
    /\ thread_order' = [thread_order EXCEPT ![t] = MakeOrder(thread_items[t], thread_text[t])]
    /\ thread_pc' = [thread_pc EXCEPT ![t] = "reply"]
    /\ UNCHANGED <<tables, thread_text, thread_matches, thread_next, thread_items, thread_reply>>
    /\ UNCHANGED outside_threads

\* reply = parser.generate_reply(parsed, "Rajesh")
ThreadReply(t) ==
    /\ thread_pc[t] = "reply"
    /\ thread_reply' = [thread_reply EXCEPT ![t] = generate_reply(thread_order[t], Rajesh)]
    /\ thread_pc' = [thread_pc EXCEPT ![t] = "done"]
    /\ UNCHANGED <<tables, thread_text, thread_matches, thread_next, thread_items, thread_order>>
    /\ UNCHANGED outside_threads

ThreadNext ==
    \E t \in Threads :
        ThreadFindAll(t) \/ ThreadLoopBody(t) \/ ThreadReturn(t) \/ ThreadReply(t)

ThreadSpec == ThreadInit /\ [][ThreadNext]_vars

----------------------------------------------------------------------------
(* Properties of parse_hinglish_order, checked under Spec *)

Atta == <<"a","t","t","a">>
Milk == <<"m","i","l","k">>
Kg == <<"k","g">>
Gm == <<"g","m">>
Litre == <<"l","i","t","r","e">>
Packet == <<"p","a","c","k","e","t">>

\* the number n as a quantity
Whole(n) == [num |-> n, den |-> 1]

\* x occurs in s as a contiguous piece
IsSubstring(x, s) ==
    \E i \in 1..(Len(s) + 1) :
        /\ i + Len(x) - 1 <= Len(s)
        /\ SubSeq(s, i, i + Len(x) - 1) = x

\* the items appended so far, by index
Appended == 1..Len(items)

C2_BiscuitSugarOrder ==
    (pc = "done" /\ order_text = MsgBiscuitSugar) =>
        /\ Len(order.items) = 2
        /\ order.items[1].unit = Packet
        /\ order.items[1].quantity = Whole(5)
        /\ order.items[2].unit = Gm
        /\ order.items[2].quantity = Whole(500)

\* the unit words of the claimed allowlist: kg, litre, piece, packet and the
\* spellings the unit table maps to one of them
AllowlistWithSynonyms ==
    {UNIT_MAPPINGS[k][1] : k \in {j \in 1..Len(UNIT_MAPPINGS) : UNIT_MAPPINGS[j][2] \in UnitAllowlist}}

\* C3: when the unit token after a number is, ignoring case, kg, litre,
\* piece, packet or one of their synonyms in the unit table, the item's unit
\* is the canonical unit of the token and the token is not part of the
\* phrase handed to the product matcher.
C3_AllowlistedTokenIsUnit ==
    \A k \in Appended :
        Lower(matches[k].unit_str) \in AllowlistWithSynonyms =>
            /\ items[k].unit = UnitGet(Lower(matches[k].unit_str), <<>>)
            /\ matcher_args[k] = matches[k].product_str

\* C4: when the unit token after a number is not in the allowlist, the
\* phrase handed to the product matcher is the token, one space and the
\* remaining phrase, and the unit is "piece"; when there is no unit token the
\* unit is "piece" as well. (The tokens outside the four words of the code's
\* list include every token outside the list with synonyms.)
C4_OtherTokenJoinsProduct ==
    \A k \in Appended :
        LET m == matches[k]
        IN  /\ (m.unit_str # <<>> /\ Lower(m.unit_str) \notin UnitAllowlist) =>
                  /\ matcher_args[k] = m.unit_str \o <<" ">> \o m.product_str
                  /\ items[k].unit = Piece
            /\ m.unit_str = <<>> =>
                  /\ matcher_args[k] = m.product_str
                  /\ items[k].unit = Piece

\* C4 happens: "1 lux soap" has been parsed, "lux soap" went to the matcher
C4_LuxSoapParsed ==
    /\ pc = "done"
    /\ order_text = MsgLuxSoap
    /\ Len(items) = 1
    /\ matches[1].unit_str = <<"l","u","x">>
    /\ matcher_args[1] = <<"l","u","x"," ","s","o","a","p">>
    /\ items[1].unit = Piece

\* C5: the original_text of every item is a literal substring of the message.
C5_OriginalTextIsSubstring ==
    \A k \in Appended : IsSubstring(items[k].original_text, order_text)

\* C6: every item has a quantity strictly greater than 0.
C6_QuantityPositive ==
    \A k \in Appended : items[k].quantity.num > 0

\* C7: the returned order has total_items = length of items and
\* original_text = the message, also when it has no items.
C7_OrderCountsItems ==
    pc = "done" =>
        /\ order.total_items = Len(order.items)
        /\ order.original_text = order_text
        /\ order.items = items
        /\ Len(items) = Len(matches)

\* C7 happens: a message with leading whitespace and no item has been parsed
C7_EmptyOrderReturned ==
    /\ pc = "done"
    /\ order_text # <<>>
    /\ IsSpace(order_text[1])
    /\ order.items = <<>>
    /\ order.total_items = 0

\* the items of the candidates ms, in their order, a candidate whose number
\* float does not accept left out
RECURSIVE ItemsOf(_)
ItemsOf(ms) ==
    IF ms = <<>> THEN <<>>
    ELSE (IF FloatAccepts(Head(ms).quantity_str) THEN <<MakeItem(Head(ms))>> ELSE <<>>)
             \o ItemsOf(Tail(ms))

\* the number of steps parse_hinglish_order has left at most
StepsLeft ==
    IF pc = "findall" THEN Len(order_text) + 2
    ELSE IF pc = "loop" THEN Len(matches) + 2 - next_match
    ELSE 0

\* a statement of the function is ready to run: the call of findall, a turn
\* of the loop or the return
StepReady ==
    \/ pc = "findall"
    \/ pc = "loop" /\ next_match \in 1..Len(matches)
    \/ pc = "loop" /\ next_match = Len(matches) + 1

\* C15: parse_hinglish_order raises nothing and returns: until it has
\* returned a statement of it is ready to run, every step leaves fewer steps
\* to take, and what it returns is an order with the keys items,
\* original_text and total_items whose items are those of the candidates in
\* their order of appearance, a candidate whose number does not parse being
\* skipped.
C15_AlwaysReturnsOrder ==
    /\ [](pc # "done" => StepReady)
    /\ [][StepsLeft' < StepsLeft /\ StepsLeft' >= 0]_vars
    /\ [](pc = "done" =>
             /\ DOMAIN order = {"items", "original_text", "total_items"}
             /\ order.items = ItemsOf(matches)
             /\ order.original_text = order_text
             /\ order.total_items = Len(order.items))

\* C15 happens: a message with several candidates has been parsed and the
\* order returned
C15_SeveralCandidatesReturned ==
    /\ pc = "done"
    /\ Len(matches) >= 2
    /\ order.items = ItemsOf(matches)
    /\ order.items[1] # order.items[2]

----------------------------------------------------------------------------
(* Properties of fuzzy_match_product, checked under MatchSpec *)

MinOf(S) == CHOOSE x \in S : \A y \in S : x <= y

\* the aliases of the table in iteration order, each with its standard name
RECURSIVE AliasesFrom(_)
AliasesFrom(e) ==
    IF e > Len(PRODUCT_ALIASES) THEN <<>>
    ELSE [a \in 1..Len(PRODUCT_ALIASES[e][2]) |->
             [name |-> PRODUCT_ALIASES[e][1], alias |-> PRODUCT_ALIASES[e][2][a]]]
         \o AliasesFrom(e + 1)

AliasList == AliasesFrom(1)

\* the similarities of the lowercased, trimmed input to the aliases
AliasScores ==
    LET x == Strip(Lower(product_text))
    IN  [k \in 1..Len(AliasList) |-> ratio(x, AliasList[k].alias)]

\* the similarities of the lowercased, trimmed input to the catalog names
CatalogScores ==
    LET x == Strip(Lower(product_text))
    IN  [k \in 1..Len(known_products) |-> ratio(x, known_products[k])]

\* the aliases that reach the threshold
AliasHits ==
    LET sc == AliasScores
    IN  {k \in 1..Len(AliasList) : sc[k].num >= threshold * sc[k].den}

\* the catalog names with the highest similarity
TopCatalog ==
    LET sc == CatalogScores
    IN  {k \in 1..Len(known_products) :
            \A j \in 1..Len(known_products) : sc[k].num * sc[j].den >= sc[j].num * sc[k].den}

\* the highest catalog similarity reaches the threshold
CatalogHit ==
    LET sc == CatalogScores
    IN  \E k \in 1..Len(known_products) : sc[k].num >= threshold * sc[k].den

\* C8: the alias phase is first-match in table order: when an alias reaches
\* the threshold (a score equal to it included), the result is the standard
\* name of the first such alias, even if a later alias scores higher.
C8_FirstAliasWins ==
    (match_pc = "done" /\ AliasHits # {}) =>
        match_result = AliasList[MinOf(AliasHits)].name

\* C8 happens: the first alias that reaches the threshold scores exactly the
\* threshold, a later alias of another product scores strictly higher, and
\* the first one's standard name has been returned
C8_LaterAliasScoresHigher ==
    /\ match_pc = "done"
    /\ threshold > 0
    /\ AliasHits # {}
    /\ LET first == MinOf(AliasHits)
           sc    == AliasScores
       IN  /\ sc[first].num = threshold * sc[first].den
           /\ \E k \in AliasHits :
                 /\ k > first
                 /\ AliasList[k].name # AliasList[first].name
                 /\ sc[k].num * sc[first].den > sc[first].num * sc[k].den
           /\ match_result = AliasList[first].name

\* C9: when no alias reaches the threshold, the result is the catalog name
\* with the highest similarity, provided that similarity reaches the
\* threshold; among several names with the top similarity, the earliest in
\* catalog order.
C9_BestCatalogNameWins ==
    (match_pc = "done" /\ AliasHits = {} /\ CatalogHit) =>
        match_result = known_products[MinOf(TopCatalog)]

\* C9 happens: no alias reached the threshold, two catalog names share the
\* top similarity, and the earlier one has been returned
C9_TieReturnsEarliest ==
    /\ match_pc = "done"
    /\ AliasHits = {}
    /\ CatalogHit
    /\ Cardinality(TopCatalog) >= 2
    /\ match_result = known_products[MinOf(TopCatalog)]

\* C10: when no alias and no catalog name reaches the threshold, the result
\* is the input lowercased and trimmed of surrounding whitespace.
C10_PassthroughLowercasedTrimmed ==
    (match_pc = "done" /\ AliasHits = {} /\ ~CatalogHit) =>
        match_result = Strip(Lower(product_text))

\* C11: at the default threshold every alias of the table resolves to the
\* standard name it is declared under, not to the name of an earlier entry,
\* and every standard name resolves to itself.
C11_DeclaredNamesResolve ==
    (match_pc = "done" /\ threshold = DefaultThreshold) =>
        \A e \in 1..Len(PRODUCT_ALIASES) :
            (\/ product_text = PRODUCT_ALIASES[e][1]
             \/ product_text \in Range(PRODUCT_ALIASES[e][2]))
                => match_result = PRODUCT_ALIASES[e][1]

\* C11 happens: "doodh", an alias of the sixth entry, has been resolved to
\* "milk" at the default threshold
C11_DoodhResolvedToMilk ==
    /\ match_pc = "done"
    /\ threshold = DefaultThreshold
    /\ product_text = <<"d","o","o","d","h">>
    /\ match_result = Milk

----------------------------------------------------------------------------
(* Properties of normalize_unit, checked under UnitSpec *)

\* the values of UNIT_MAPPINGS
CanonicalUnits == {UNIT_MAPPINGS[k][2] : k \in 1..Len(UNIT_MAPPINGS)}

\* C12: normalize_unit returns a canonical unit unchanged, and for every
\* text, an unknown unit included, normalising the result of normalize_unit
\* returns that result again.
C12_NormalizeUnitIdempotent ==
    /\ (unit_pc \in {"second", "done"} /\ unit_input \in CanonicalUnits) =>
           unit_once = unit_input
    /\ unit_pc = "done" => unit_twice = unit_once

\* C12 happens: a text that is no key of the table, written with capitals or
\* whitespace around it, came back lowercased and trimmed, and came back the
\* same from the second call
C12_UnknownUnitNormalisedTwice ==
    /\ unit_pc = "done"
    /\ unit_once \notin CanonicalUnits
    /\ unit_once # <<>>
    /\ unit_once # unit_input
    /\ unit_twice = unit_once

----------------------------------------------------------------------------
(* Properties of generate_reply, checked under ReplySpec *)

\* C13: parsing the empty message returns an order with no items and
\* total_items 0; and for an order without items, or no order at all,
\* generate_reply returns the fixed "Sorry <name>, I couldn't understand your
\* order. Please try again." text on one line, with no item lines.
C13_EmptyOrderGetsSorryReply ==
    /\ (pc = "done" /\ order_text = <<>>) =>
           (order.items = <<>> /\ order.total_items = 0)
    /\ (reply_pc = "done" /\ (parsed_order = NoOrder \/ parsed_order.items = <<>>)) =>
           /\ reply = SorryText(customer_name)
           /\ \A k \in 1..Len(reply) : reply[k] # "\n"

\* C13 happens: the empty message was parsed to an order of no items and
\* generate_reply answered it with the fixed text
C13_EmptyMessageAnswered ==
    /\ order_text = <<>>
    /\ pc = "done"
    /\ parsed_order = MakeOrder(<<>>, <<>>)
    /\ reply_pc = "done"
    /\ reply = SorryText(customer_name)

\* the item lines k, k + 1, ... of the reply, each after a line break
RECURSIVE ItemLinesFrom(_)
ItemLinesFrom(k) ==
    IF k > Len(parsed_order.items) THEN <<>>
    ELSE <<"\n">> \o ItemLine(k, parsed_order.items[k]) \o ItemLinesFrom(k + 1)

\* C14: for an order of N >= 1 items the reply is the greeting line with the
\* customer name, then the N lines "<i>. <quantity> <unit> <Title Cased
\* name>" of items 1..N in order, then the two fixed trailer lines; it is a
\* function of the order and the customer name.
C14_ReplyListsItemsInOrder ==
    (reply_pc = "done" /\ parsed_order # NoOrder /\ Len(parsed_order.items) >= 1) =>
        reply = Greeting(customer_name) \o ItemLinesFrom(1)
                    \o <<"\n">> \o ConfirmedLine \o <<"\n">> \o PrepareLine

\* C14 happens: the order of "2 kg atta aur 1 litre milk chahiye", of two
\* items, has been answered
C14_TwoItemOrderAnswered ==
    /\ reply_pc = "done"
    /\ order_text = MsgAttaMilk
    /\ Len(parsed_order.items) = 2
    /\ IsSubstring(<<"\n", "2", ".", " ">>, reply)

----------------------------------------------------------------------------
(* Properties of calls that share an OrderParser, checked under ThreadSpec *)

\* what parse_hinglish_order returns for a message when nothing else runs
ParsedAlone(text) == MakeOrder(ItemsOf(findall(text)), text)

\* C16: no step of a parser operation changes the unit table, the alias
\* table or the catalog list, and under every interleaving of two calls on
\* the shared parser each call returns what it returns when run alone.
C16_ConcurrentCallsAsAlone ==
    /\ tables = ParserTables
    /\ \A t \in Threads :
           /\ thread_pc[t] \in {"reply", "done"} =>
                  thread_order[t] = ParsedAlone(thread_text[t])
           /\ thread_pc[t] = "done" =>
                  thread_reply[t] = generate_reply(ParsedAlone(thread_text[t]), Rajesh)

\* C16 happens: the turns of the for loops of two calls on different
\* messages interleave, each call having appended one of its two items
C16_LoopsInterleaved ==
    /\ thread_text["t1"] # thread_text["t2"]
    /\ \A t \in Threads :
           /\ thread_pc[t] = "loop"
           /\ Len(thread_matches[t]) = 2
           /\ Len(thread_items[t]) = 1

----------------------------------------------------------------------------
(* The units of parsed items, checked under Spec *)

\* the units of the items of the messages msgs
UnitsParsed(msgs) ==
    UNION {{ParsedAlone(m).items[k].unit : k \in 1..Len(ParsedAlone(m).items)} :
              m \in msgs}

\* C17: the unit of every item is a canonical unit, and every canonical unit
\* that the unit table spells (kg, gm, litre, ml, piece, packet, bottle,
\* box, dozen) is the unit of an item of some message.
C17_EveryCanonicalUnitParsed ==
    /\ \A k \in Appended : items[k].unit \in CanonicalUnits
    /\ CanonicalUnits \subseteq UnitsParsed(Messages)

----------------------------------------------------------------------------
(* InventoryDB (src/src/database.py): the columns name and stock of the    *)
(* items table, and the stock_history table. A REAL is kept as the decimal *)
(* fraction num / den, as a quantity is.                                   *)

\* the number n as a REAL
Real(n) == [num |-> n, den |-> 1]

\* x + y
FracAdd(x, y) ==
    Reduce([num |-> x.num * y.den + y.num * x.den, den |-> x.den * y.den])

\* -x
FracNeg(x) == [num |-> 0 - x.num, den |-> x.den]

\* x < y
FracLess(x, y) == x.num * y.den < y.num * x.den

\* no row: what fetchone() returns when the SELECT finds nothing
NoItem == <<>>

\* get_item_by_name on the table held in stk: the row of the item whose
\* name equals the argument without regard to case, as <<row>>, else NoItem
get_item_by_name(stk, name) ==
    LET found == {n \in DOMAIN stk : Lower(n) = Lower(name)}
    IN  IF found = {} THEN NoItem
        ELSE LET n == CHOOSE n \in found : TRUE
             IN  <<[id |-> n, name |-> n, stock |-> stk[n]]>>

\* the row INSERTed into stock_history
HistoryRow(item, change, new_stock) ==
    [item_id        |-> item.id,
     change_amount  |-> change,
     previous_stock |-> item.stock,
     new_stock      |-> new_stock,
     reason         |-> "order"]

\* update_stock run from its first statement to its return with nothing in
\* between, on the tables stk and hist: the tables it leaves and the value
\* it returns
update_stock(stk, hist, name, change) ==
    LET row == get_item_by_name(stk, name)
    IN  IF row = NoItem
        THEN [stock |-> stk, stock_history |-> hist, returned |-> FALSE]
        ELSE LET item      == row[1]
                 new_stock == FracAdd(item.stock, change)
             IN  IF FracLess(new_stock, Real(0))
                 THEN [stock |-> stk, stock_history |-> hist, returned |-> FALSE]
                 ELSE [stock         |-> [stk EXCEPT ![item.id] = new_stock],
                       stock_history |-> Append(hist, HistoryRow(item, change, new_stock)),
                       returned      |-> TRUE]

----------------------------------------------------------------------------
(* The webhook handler process_whatsapp_order (src/app.py). It is a        *)
(* coroutine without an await, so one request runs from start to response  *)
(* with no other request in between.                                       *)

\* parse_hinglish_order as one call
RECURSIVE LoopItems(_)
LoopItems(ms) ==
    IF ms = <<>> THEN <<>>
    ELSE (IF FloatAccepts(Head(ms).quantity_str) THEN <<MakeItem(Head(ms))>> ELSE <<>>)
             \o LoopItems(Tail(ms))

parse_hinglish_order(text) == MakeOrder(LoopItems(findall(text)), text)

\* "2 kg atta"
MsgAtta ==
    <<"2"," ","k","g"," ","a","t","t","a">>

\* "2 kg atta, 2 kg atta"
MsgAttaTwice ==
    <<"2"," ","k","g"," ","a","t","t","a",","," ","2"," ","k","g"," ","a",
      "t","t","a">>

\* "2 kg atta, 1 litre milk"
MsgAttaAndMilk ==
    <<"2"," ","k","g"," ","a","t","t","a",","," ","1"," ","l","i","t","r",
      "e"," ","m","i","l","k">>

\* "0.5 litre milk"
MsgHalfMilk ==
    <<"0",".","5"," ","l","i","t","r","e"," ","m","i","l","k">>

\* "5 kg rice"
MsgRice ==
    <<"5"," ","k","g"," ","r","i","c","e">>

\* the messages the webhook receives
HandlerMessages == {<<>>, MsgAtta, MsgAttaTwice, MsgAttaAndMilk, MsgHalfMilk, MsgRice}

\* the names of the items table
DbItems == {Atta, Milk}

MaxStock == 3

\* the inventories a request finds
Inventories == [DbItems -> {Real(n) : n \in 0..MaxStock}]

\* a request arrives
HandlerInit ==
    /\ message \in HandlerMessages
    /\ stock \in Inventories
    /\ stock_before = stock
    /\ stock_history = <<>>
    /\ history_before = <<>>
    /\ handler_pc = "parse"
    /\ handler_order = NoOrder
    /\ available_items = <<>>
    /\ unavailable_items = <<>>
    /\ update_next = 1
    /\ success = "none"
    /\ ParseIdle
    /\ MatchIdle
    /\ UnitIdle
    /\ ReplyIdle
    /\ ThreadsIdle
    /\ CallsIdle

\* parsed_order = order_parser.parse_hinglish_order(message.message), with
\* items
HandlerParsed ==
    /\ handler_pc = "parse"
    /\ ~OrderNotUnderstood(parse_hinglish_order(message))
    /\ handler_order' = parse_hinglish_order(message)
    /\ handler_pc' = "check"
    /\ UNCHANGED <<message, available_items, unavailable_items, update_next, success>>
    /\ UNCHANGED db_vars
    /\ UNCHANGED outside_handler

\* "Failed to parse order"
HandlerParseFailed ==
    /\ handler_pc = "parse"
    /\ OrderNotUnderstood(parse_hinglish_order(message))
    /\ handler_order' = parse_hinglish_order(message)
    /\ success' = "false"
    /\ handler_pc' = "done"
    /\ UNCHANGED <<message, available_items, unavailable_items, update_next>>
    /\ UNCHANGED db_vars
    /\ UNCHANGED outside_handler

\* "if db_item and db_item["stock"] >= item["quantity"]"
InStock(stk, item) ==
    LET db_item == get_item_by_name(stk, item.name)
    IN  db_item # NoItem /\ ~FracLess(db_item[1].stock, item.quantity)

\* one turn of "for item in parsed_order["items"]"
HandlerCheckItem ==
    /\ handler_pc = "check"
    /\ Len(available_items) + Len(unavailable_items) < Len(handler_order.items)
    /\ LET item == handler_order.items[Len(available_items) + Len(unavailable_items) + 1]
       IN  IF InStock(stock, item)
           THEN /\ available_items' = Append(available_items, item)
                /\ UNCHANGED unavailable_items
           ELSE /\ unavailable_items' = Append(unavailable_items, item.name)
                /\ UNCHANGED available_items
    /\ UNCHANGED <<message, handler_pc, handler_order, update_next, success>>
    /\ UNCHANGED db_vars
    /\ UNCHANGED outside_handler

\* "Some items unavailable"
HandlerReject ==
    /\ handler_pc = "check"
    /\ Len(available_items) + Len(unavailable_items) = Len(handler_order.items)
    /\ unavailable_items # <<>>
    /\ success' = "false"
    /\ handler_pc' = "done"
    /\ UNCHANGED <<message, handler_order, available_items, unavailable_items, update_next>>
    /\ UNCHANGED db_vars
    /\ UNCHANGED outside_handler

\* invoice_gen.create_invoice(...) returns
HandlerInvoice ==
    /\ handler_pc = "check"
    /\ Len(available_items) + Len(unavailable_items) = Len(handler_order.items)
    /\ unavailable_items = <<>>
    /\ handler_pc' = "update"
    /\ UNCHANGED <<message, handler_order, available_items, unavailable_items,
                   update_next, success>>
    /\ UNCHANGED db_vars
    /\ UNCHANGED outside_handler

\* invoice_gen.create_invoice(...) raises (the file cannot be written): the
\* except clause of the handler answers
HandlerInvoiceRaises ==
    /\ handler_pc = "check"
    /\ Len(available_items) + Len(unavailable_items) = Len(handler_order.items)
    /\ unavailable_items = <<>>
    /\ success' = "false"
    /\ handler_pc' = "done"
    /\ UNCHANGED <<message, handler_order, available_items, unavailable_items, update_next>>
    /\ UNCHANGED db_vars
    /\ UNCHANGED outside_handler

\* one turn of "for item in available_items": db.update_stock(item["name"],
\* -item["quantity"]), the returned value dropped
HandlerUpdateItem ==
    /\ handler_pc = "update"
    /\ update_next <= Len(available_items)
    /\ LET item   == available_items[update_next]
           result == update_stock(stock, stock_history, item.name, FracNeg(item.quantity))
       IN  /\ stock' = result.stock
           /\ stock_history' = result.stock_history
    /\ update_next' = update_next + 1
    /\ UNCHANGED <<stock_before, history_before>>
    /\ UNCHANGED <<message, handler_pc, handler_order, available_items,
                   unavailable_items, success>>
    /\ UNCHANGED outside_handler

\* the confirmation: OrderResponse(success=True, ...)
HandlerConfirm ==
    /\ handler_pc = "update"
    /\ update_next > Len(available_items)
    /\ success' = "true"
    /\ handler_pc' = "done"
    /\ UNCHANGED <<message, handler_order, available_items, unavailable_items, update_next>>
    /\ UNCHANGED db_vars
    /\ UNCHANGED outside_handler

HandlerNext ==
    \/ HandlerParsed \/ HandlerParseFailed \/ HandlerCheckItem \/ HandlerReject
    \/ HandlerInvoice \/ HandlerInvoiceRaises \/ HandlerUpdateItem \/ HandlerConfirm

HandlerSpec == HandlerInit /\ [][HandlerNext]_vars

----------------------------------------------------------------------------
(* Properties of process_whatsapp_order, checked under HandlerSpec *)

\* the sum of the quantities of the items its, from item k on, that name n
RECURSIVE OrderedFrom(_, _, _)
OrderedFrom(its, k, n) ==
    IF k > Len(its) THEN Real(0)
    ELSE FracAdd(IF its[k].name = n THEN its[k].quantity ELSE Real(0),
                 OrderedFrom(its, k + 1, n))

\* C18: when the handler answers success=True the stock of every product
\* named in the parsed order is its stock at the start of the request less
\* the total quantity ordered of it, over all the items that name it; when
\* it answers success=False no stock and no stock_history row has changed.
C18_StockFollowsResponse ==
    /\ success = "true" =>
           \A k \in 1..Len(handler_order.items) :
               LET n == handler_order.items[k].name
               IN  stock[n] = FracAdd(stock_before[n],
                                      FracNeg(OrderedFrom(handler_order.items, 1, n)))
    /\ success = "false" =>
           (stock = stock_before /\ stock_history = history_before)

----------------------------------------------------------------------------
(* Concurrent calls of InventoryDB.update_stock. Each call opens its own   *)
(* connection; get_item_by_name reads and closes, and the UPDATE and the   *)
(* INSERT are committed together later, so other calls run in between.     *)

Rice == <<"r","i","c","e">>

\* the names update_stock is called with: an item of the table, and one
\* that is not in it
CallNames == {Atta, Rice}

\* the changes update_stock is called with
Changes == {Real(0 - 2), Real(0 - 1), Real(1)}

MaxCalls == 2

CallInit ==
    /\ stock \in Inventories
    /\ stock_before = stock
    /\ stock_history = <<>>
    /\ history_before = <<>>
    /\ CallsIdle
    /\ ParseIdle
    /\ MatchIdle
    /\ UnitIdle
    /\ ReplyIdle
    /\ ThreadsIdle
    /\ HandlerIdle

\* caller c calls update_stock(name, change)
CallStart(c) ==
    /\ call_pc[c] \in {"idle", "returned"}
    /\ calls_made[c] < MaxCalls
    /\ \E name \in CallNames, change \in Changes :
           /\ call_name' = [call_name EXCEPT ![c] = name]
           /\ call_change' = [call_change EXCEPT ![c] = change]
    /\ call_pc' = [call_pc EXCEPT ![c] = "read"]
    /\ calls_made' = [calls_made EXCEPT ![c] = @ + 1]
    /\ UNCHANGED <<call_item, call_returned>>
    /\ UNCHANGED db_vars
    /\ UNCHANGED outside_calls

\* item = self.get_item_by_name(name)
CallRead(c) ==
    /\ call_pc[c] = "read"
    /\ call_item' = [call_item EXCEPT ![c] = get_item_by_name(stock, call_name[c])]
    /\ call_pc' = [call_pc EXCEPT ![c] = "decide"]
    /\ UNCHANGED <<call_name, call_change, call_returned, calls_made>>
    /\ UNCHANGED db_vars
    /\ UNCHANGED outside_calls

\* "if not item: return False"
CallNotFound(c) ==
    /\ call_pc[c] = "decide"
    /\ call_item[c] = NoItem
    /\ call_returned' = [call_returned EXCEPT ![c] = FALSE]
    /\ call_pc' = [call_pc EXCEPT ![c] = "returned"]
    /\ UNCHANGED <<call_name, call_change, call_item, calls_made>>
    /\ UNCHANGED db_vars
    /\ UNCHANGED outside_calls

\* "if new_stock < 0: return False"
CallInsufficient(c) ==
    /\ call_pc[c] = "decide"
    /\ call_item[c] # NoItem
    /\ FracLess(FracAdd(call_item[c][1].stock, call_change[c]), Real(0))
    /\ call_returned' = [call_returned EXCEPT ![c] = FALSE]
    /\ call_pc' = [call_pc EXCEPT ![c] = "returned"]
    /\ UNCHANGED <<call_name, call_change, call_item, calls_made>>
    /\ UNCHANGED db_vars
    /\ UNCHANGED outside_calls

\* the UPDATE of items, the INSERT into stock_history, the commit and
\* "return True"
CallWrite(c) ==
    /\ call_pc[c] = "decide"
    /\ call_item[c] # NoItem
    /\ LET item      == call_item[c][1]
           new_stock == FracAdd(item.stock, call_change[c])
       IN  /\ ~FracLess(new_stock, Real(0))
           /\ stock' = [stock EXCEPT ![item.id] = new_stock]
           /\ stock_history' =
                  Append(stock_history, HistoryRow(item, call_change[c], new_stock))
    /\ call_returned' = [call_returned EXCEPT ![c] = TRUE]
    /\ call_pc' = [call_pc EXCEPT ![c] = "returned"]
    /\ UNCHANGED <<stock_before, history_before>>
    /\ UNCHANGED <<call_name, call_change, call_item, calls_made>>
    /\ UNCHANGED outside_calls

CallNext ==
    \E c \in Callers :
        \/ CallStart(c) \/ CallRead(c) \/ CallNotFound(c)
        \/ CallInsufficient(c) \/ CallWrite(c)

CallSpec == CallInit /\ [][CallNext]_vars

----------------------------------------------------------------------------
(* Properties of update_stock, checked under CallSpec *)

\* the sum of change_amount over the rows k, k + 1, ... of stock_history
\* recorded for item n
RECURSIVE ChangesFrom(_, _)
ChangesFrom(k, n) ==
    IF k > Len(stock_history) THEN Real(0)
    ELSE FracAdd(IF stock_history[k].item_id = n
                 THEN stock_history[k].change_amount ELSE Real(0),
                 ChangesFrom(k + 1, n))

\* a call returns False in this step
ReturnsFalse ==
    \E c \in Callers :
        /\ call_pc[c] = "decide"
        /\ call_pc'[c] = "returned"
        /\ call_returned'[c] = FALSE

\* C19: under every interleaving of calls of update_stock, the stock of an
\* item is never negative, a call that returns False changes neither stock
\* nor stock_history, and once the calls have returned the stock of each
\* item is its initial stock plus the sum of change_amount over the
\* stock_history rows recorded for it.
C19_StockMatchesHistory ==
    /\ [](\A n \in DOMAIN stock : ~FracLess(stock[n], Real(0)))
    /\ [][ReturnsFalse => UNCHANGED <<stock, stock_history>>]_vars
    /\ []((\A c \in Callers : call_pc[c] \in {"idle", "returned"}) =>
             \A n \in DOMAIN stock :
                 stock[n] = FracAdd(stock_before[n], ChangesFrom(1, n)))

====
